---- MODULE Spec2Model ----
(***************************************************************************)
(* Session lifecycle and role dispatch of the Party2go frontend            *)
(* (frontend/src/App.js).                                                  *)
(*                                                                         *)
(* The state is the session held by AuthProvider (the React state token    *)
(* and user, the 'token' key of localStorage, the default Authorization    *)
(* header of the shared axios instance), the route shown by the router,    *)
(* and the requests in flight.  One step of the model is one run of the    *)
(* JavaScript event loop that the program reacts to: a user event or the   *)
(* completion of a request, together with the render it causes and the     *)
(* effects of that render (React runs the effects of a commit before it    *)
(* processes a later update; effects of children run before the effects    *)
(* of their ancestors).  The first render of the process is split in its   *)
(* three phases, because requests are dispatched between them.             *)
(*                                                                         *)
(* axios copies the default headers into a request when the request        *)
(* function is called, so a request carries the header that is set at the  *)
(* moment of its dispatch.                                                 *)
(***************************************************************************)
EXTENDS Naturals, Sequences, FiniteSets, Bags

VARIABLES
    ls,        \* localStorage 'token': a token, or NULL when the key is absent
    token,     \* AuthProvider state: token
    user,      \* AuthProvider state: user
    header,    \* axios.defaults.headers.common['Authorization'], NULL if absent
    route,     \* path matched by <Routes>
    phase,     \* position in the first render of the process
    inflight,  \* bag of requests dispatched and not yet completed
    sent,      \* history: the requests dispatched by the last step, in order
    last,      \* history: the handler run by the last step and its input
    era,       \* history: the response passed to the last login() if no logout()
               \* followed it, else EraStart or EraLoggedOut
    ui         \* state local to the view under study (NoUi where the
               \* specification abstracts from it)

vars == <<ls, token, user, header, route, phase, inflight, sent, last, era, ui>>

----------------------------------------------------------------------------
(* Values *)

NULL == "null"

\* Bound: user events are not accepted while this many requests are in flight.
MaxInFlight == 2

Tokens == {"t1", "t2"}

\* User profiles as the API returns them; each stands for an object whose
\* role field is UserRole: the three known roles, an unknown role, no role.
Users == {"u_user", "u_owner", "u_admin", "u_guest", "u_norole"}

UserRole(u) ==
    CASE u = "u_user"  -> "user"
      [] u = "u_owner" -> "venue_owner"
      [] u = "u_admin" -> "admin"
      [] u = "u_guest" -> "guest"
      [] OTHER         -> NULL

\* The response body of POST /auth/login and POST /auth/register.
TokenData == [access_token : Tokens, user : Users]

Routes == {"/", "/venues", "/venues/:id", "/login", "/register", "/dashboard"}

\* `Bearer ${token}`
Bearer(t) == "Bearer " \o t

\* JavaScript truthiness of a token value.
Truthy(t) == t # NULL /\ t # ""

\* The session as one record.
Session == [ls |-> ls, token |-> token, user |-> user, header |-> header]

Cleared == [ls |-> NULL, token |-> NULL, user |-> NULL, header |-> NULL]

\* isAuthenticated: !!token
isAuthenticated(s) == Truthy(s.token)

----------------------------------------------------------------------------
(* AuthProvider *)

\* A request as dispatched: axios attaches the default header of that moment.
Request(ep, s) == [ep |-> ep, auth |-> s.header]

\* login() without localStorage.setItem('token', ...).
login_NoPersist(s, tokenData) ==
    [ls     |-> s.ls,
     token  |-> tokenData.access_token,
     user   |-> tokenData.user,
     header |-> Bearer(tokenData.access_token)]

\* login() without the assignment of the default header.
login_NoHeader(s, tokenData) ==
    [ls     |-> tokenData.access_token,
     token  |-> tokenData.access_token,
     user   |-> tokenData.user,
     header |-> s.header]

\* login(tokenData)
login(s, tokenData) ==
    [ls     |-> tokenData.access_token,
     token  |-> tokenData.access_token,
     user   |-> tokenData.user,
     header |-> Bearer(tokenData.access_token)]

\* logout() without the delete of the default header.
logout_KeepHeader(s) ==
    [s EXCEPT !.ls = NULL, !.token = NULL, !.user = NULL]

\* logout()
logout(s) ==
    [s EXCEPT !.ls = NULL, !.token = NULL, !.user = NULL, !.header = NULL]

\* fetchUserInfo() that sends its request again after sending it.
fetchUserInfo_Twice(s) ==
    <<[ep |-> "GET /auth/me", auth |-> s.header],
      [ep |-> "GET /auth/me", auth |-> s.header]>>

\* fetchUserInfo(), up to the await: dispatches GET /auth/me.
fetchUserInfo(s) == <<Request("GET /auth/me", s)>>

\* fetchUserInfo(), after the await, request fulfilled with profile u.
fetchUserInfoOk(s, u) == [s EXCEPT !.user = u]

\* A catch block that only drops the user.
fetchUserInfoFail_Partial(s) == [s EXCEPT !.user = NULL]

\* A catch block that clears the memory and the header but not localStorage.
fetchUserInfoFail_KeepStorage(s) ==
    [s EXCEPT !.token = NULL, !.user = NULL, !.header = NULL]

\* fetchUserInfo(), after the await, request rejected (any cause).
fetchUserInfoFail(s) == logout(s)

\* The effect without the assignment of the default header.
tokenEffect_NoHeader(s) ==
    IF Truthy(s.token)
    THEN [s |-> s, q |-> <<[ep |-> "GET /auth/me", auth |-> s.header]>>]
    ELSE [s |-> s, q |-> <<>>]

\* The effect without the call of fetchUserInfo().
tokenEffect_NoFetch(s) ==
    IF Truthy(s.token)
    THEN [s |-> [s EXCEPT !.header = Bearer(s.token)], q |-> <<>>]
    ELSE [s |-> s, q |-> <<>>]

\* A catch block of handleSubmit that gives the session up.
handleSubmitCatch_Logout(s, r) ==
    [s |-> [s EXCEPT !.ls = NULL, !.token = NULL, !.user = NULL, !.header = NULL],
     route |-> r]

\* The catch block of LoginPage.handleSubmit and RegisterPage.handleSubmit,
\* entered at path r: setError(...) only, which is local to the view; login()
\* and navigate('/dashboard') were skipped by the throw.
handleSubmitCatch(s, r) == [s |-> s, route |-> r]

\* Body of useEffect(..., [token]): the session after it and the requests
\* it dispatched.
tokenEffect(s) ==
    IF Truthy(s.token)
    THEN LET s1 == [s EXCEPT !.header = Bearer(s.token)]
         IN  [s |-> s1, q |-> fetchUserInfo(s1)]
    ELSE [s |-> s, q |-> <<>>]

----------------------------------------------------------------------------
(* Router and views *)

\* Dashboard without the admin branch.
Dashboard_NoAdmin(u) ==
    IF u = NULL THEN "Navigate:/login"
    ELSE IF UserRole(u) = "venue_owner" THEN "OwnerDashboard"
    ELSE "UserDashboard"

\* Dashboard that takes every role but 'user' and 'venue_owner' for admin.
Dashboard_ElseAdmin(u) ==
    IF u = NULL THEN "Navigate:/login"
    ELSE IF UserRole(u) = "venue_owner" THEN "OwnerDashboard"
    ELSE IF UserRole(u) = "user" THEN "UserDashboard"
    ELSE "AdminDashboard"

\* Dashboard without the test of the user.
Dashboard_NoRedirect(u) ==
    IF u # NULL /\ UserRole(u) = "venue_owner" THEN "OwnerDashboard"
    ELSE IF u # NULL /\ UserRole(u) = "admin" THEN "AdminDashboard"
    ELSE "UserDashboard"

\* Dashboard: the element it returns for the user of the context.
Dashboard(u) ==
    IF u = NULL THEN "Navigate:/login"
    ELSE IF UserRole(u) = "venue_owner" THEN "OwnerDashboard"
    ELSE IF UserRole(u) = "admin" THEN "AdminDashboard"
    ELSE "UserDashboard"

\* <Routes>: the element rendered for a path.
RouteElement(r, u) ==
    CASE r = "/"           -> "HomePage"
      [] r = "/venues"     -> "VenueList"
      [] r = "/venues/:id" -> "VenueDetail"
      [] r = "/login"      -> "LoginPage"
      [] r = "/register"   -> "RegisterPage"
      [] r = "/dashboard"  -> Dashboard(u)

\* The requests a view dispatches from its mount effect.
MountFetch(view, s) ==
    CASE view = "HomePage"       -> <<Request("GET /venues", s)>>
      [] view = "VenueList"      -> <<Request("GET /venues?", s)>>
      [] view = "VenueDetail"    -> <<Request("GET /venues/:id", s)>>
      [] view = "UserDashboard"  -> <<Request("GET /dashboard/user", s)>>
      [] view = "OwnerDashboard" -> <<Request("GET /dashboard/owner", s)>>
      [] view = "AdminDashboard" -> <<Request("GET /dashboard/admin", s)>>
      [] OTHER                   -> <<>>

\* A <Navigate> that leaves the router where it is.
Redirect_Never(r, u) == r

\* <Navigate to="/login" /> rendered by Dashboard moves the router to /login.
Redirect(r, u) ==
    IF RouteElement(r, u) = "Navigate:/login" THEN "/login" ELSE r

\* Effects of the views below AuthProvider after a render: a view that was
\* not mounted before the render runs its mount effect.
ChildEffects(oldView, r, s) ==
    LET v == RouteElement(r, s.user)
    IN  IF v # oldView THEN MountFetch(v, s) ELSE <<>>

\* The render with an effect of AuthProvider that has no dependency, and so
\* runs on the first commit only.
Commit_EmptyDeps(s1, r1) ==
    LET r2 == Redirect(r1, s1.user)
    IN  [s |-> s1, route |-> r2,
         q |-> ChildEffects(RouteElement(route, user), r2, s1)]

\* The render that follows a handler which left the session s1 and the path
\* r1: redirect, effects of the children, then the effect of AuthProvider,
\* which runs when its dependency token changed.
Commit(s1, r1) ==
    LET r2 == Redirect(r1, s1.user)
        q1 == ChildEffects(RouteElement(route, user), r2, s1)
        e  == IF s1.token # token THEN tokenEffect(s1) ELSE [s |-> s1, q |-> <<>>]
    IN  [s |-> e.s, route |-> r2, q |-> q1 \o e.q]

----------------------------------------------------------------------------
(* Helpers on requests *)

Range(q) == {q[i] : i \in DOMAIN q}

SeqToBag(q) == [r \in Range(q) |-> Cardinality({i \in DOMAIN q : q[i] = r})]

One(r) == SetToBag({r})

Pending == BagToSet(inflight)

Count(q, ep) == Cardinality({i \in DOMAIN q : q[i].ep = ep})

NoData == [access_token |-> NULL, user |-> NULL]

\* era before any login() or logout(), and after a logout().
EraStart == [access_token |-> "start", user |-> NULL]

EraLoggedOut == [access_token |-> "loggedOut", user |-> NULL]

LoggedIn == era.access_token \in Tokens

\* What a step records of itself: its handler, the in-memory session and
\* the era it started from, and the response it handled.
Did(op, data) ==
    [op |-> op, prev |-> [token |-> token, user |-> user], era |-> era, data |-> data]

\* The new values of the session, the route and the requests after a step
\* whose handler consumed the requests in bag done, dispatched the requests
\* first itself and ended with commit c.
Apply(c, done, first) ==
    /\ ls' = c.s.ls
    /\ token' = c.s.token
    /\ user' = c.s.user
    /\ header' = c.s.header
    /\ route' = c.route
    /\ inflight' = (inflight (-) done) (+) SeqToBag(first \o c.q)
    /\ sent' = first \o c.q

Room == BagCardinality(inflight) < MaxInFlight

\* The value of ui in a specification that keeps no view-local state.
NoUi == [kind |-> "none"]

----------------------------------------------------------------------------
(* Initial state: the first render.  useState(localStorage.getItem('token')) *)

Init ==
    /\ ls \in Tokens \cup {NULL}
    /\ token = ls
    /\ user = NULL
    /\ header = NULL
    /\ route \in Routes
    /\ phase = "rendered"
    /\ inflight = EmptyBag
    /\ sent = <<>>
    /\ last = [op |-> "render", prev |-> [token |-> NULL, user |-> NULL],
               era |-> EraStart, data |-> NoData]
    /\ era = EraStart
    /\ ui = NoUi

----------------------------------------------------------------------------
(* First commit *)

\* Effects of the views below AuthProvider on the first commit.
MountChildren ==
    /\ phase = "rendered"
    /\ LET r2 == Redirect(route, user)
           q  == MountFetch(RouteElement(r2, user), Session)
       IN  /\ route' = r2
           /\ inflight' = inflight (+) SeqToBag(q)
           /\ sent' = q
    /\ phase' = "children"
    /\ last' = Did("mountChildren", [from |-> route])
    /\ UNCHANGED <<ls, token, user, header, era, ui>>

\* Effect of AuthProvider on the first commit.
MountAuthProvider ==
    /\ phase = "children"
    /\ LET e == tokenEffect(Session)
       IN  /\ header' = e.s.header
           /\ inflight' = inflight (+) SeqToBag(e.q)
           /\ sent' = e.q
    /\ phase' = "ready"
    /\ last' = Did("restore", NoData)
    /\ UNCHANGED <<ls, token, user, route, era, ui>>

----------------------------------------------------------------------------
(* User events *)

\* The router moves to another path (link, navigate(), history).
Goto(r) ==
    /\ phase = "ready"
    /\ Room
    /\ r # route
    /\ Apply(Commit(Session, r), EmptyBag, <<>>)
    /\ last' = Did("goto", NoData)
    /\ UNCHANGED <<phase, era, ui>>

\* Header: the Logout button, shown when isAuthenticated.
ClickLogout ==
    /\ phase = "ready"
    /\ isAuthenticated(Session)
    /\ Apply(Commit(logout(Session), route), EmptyBag, <<>>)
    /\ last' = Did("logout", NoData)
    /\ era' = EraLoggedOut
    /\ UNCHANGED <<phase, ui>>

\* LoginPage.handleSubmit / RegisterPage.handleSubmit up to the await.
Submit ==
    /\ phase = "ready"
    /\ Room
    /\ route \in {"/login", "/register"}
    /\ LET ep == IF route = "/login" THEN "POST /auth/login" ELSE "POST /auth/register"
       IN  Apply(Commit(Session, route), EmptyBag, <<Request(ep, Session)>>)
    /\ last' = Did("submit", NoData)
    /\ UNCHANGED <<phase, era, ui>>

\* VenueList: the Apply Filters button; applyFilters calls fetchVenues().
\* VenueList renders the button only when its fetch is not in flight.
ApplyFiltersClick ==
    /\ phase = "ready"
    /\ Room
    /\ RouteElement(route, user) = "VenueList"
    /\ \A r \in Pending : r.ep # "GET /venues?"
    /\ Apply(Commit(Session, route), EmptyBag, <<Request("GET /venues?", Session)>>)
    /\ last' = Did("applyFilters", NoData)
    /\ UNCHANGED <<phase, era, ui>>

\* BookingForm.handleSubmit up to the await.  VenueDetail renders the form
\* only when its fetch is not in flight, and the submit button is disabled
\* while the form's request is in flight.
BookingSubmit ==
    /\ phase = "ready"
    /\ Room
    /\ RouteElement(route, user) = "VenueDetail"
    /\ \A r \in Pending : r.ep \notin {"GET /venues/:id", "POST /bookings"}
    /\ Apply(Commit(Session, route), EmptyBag, <<Request("POST /bookings", Session)>>)
    /\ last' = Did("bookingSubmit", NoData)
    /\ UNCHANGED <<phase, era, ui>>

----------------------------------------------------------------------------
(* Completions *)

IsAuthPost(r) == r.ep \in {"POST /auth/login", "POST /auth/register"}

\* handleSubmit after the await, request fulfilled: login(response.data);
\* navigate('/dashboard').
SubmitOk(r, tokenData) ==
    /\ r \in Pending /\ IsAuthPost(r)
    /\ Apply(Commit(login(Session, tokenData), "/dashboard"), One(r), <<>>)
    /\ last' = Did("login", tokenData)
    /\ era' = tokenData
    /\ UNCHANGED <<phase, ui>>

\* handleSubmit after the await, request rejected: setError(...).
SubmitFail(r) ==
    /\ r \in Pending /\ IsAuthPost(r)
    /\ LET c == handleSubmitCatch(Session, route)
       IN  Apply(Commit(c.s, c.route), One(r), <<>>)
    /\ last' = Did("submitFail", NoData)
    /\ UNCHANGED <<phase, era, ui>>

\* fetchUserInfo after the await, request fulfilled.
MeOk(r, u) ==
    /\ r \in Pending /\ r.ep = "GET /auth/me"
    /\ Apply(Commit(fetchUserInfoOk(Session, u), route), One(r), <<>>)
    /\ last' = Did("meOk", [NoData EXCEPT !.user = u])
    /\ UNCHANGED <<phase, era, ui>>

\* fetchUserInfo after the await, request rejected.
MeFail(r) ==
    /\ r \in Pending /\ r.ep = "GET /auth/me"
    /\ Apply(Commit(fetchUserInfoFail(Session), route), One(r), <<>>)
    /\ last' = Did("meFail", [from |-> route])
    /\ era' = EraLoggedOut
    /\ UNCHANGED <<phase, ui>>

\* A fetch of a view completes, fulfilled or rejected; its handlers touch
\* view-local state only.
ViewFetchDone(r) ==
    /\ r \in Pending /\ ~IsAuthPost(r)
    /\ r.ep \notin {"GET /auth/me", "POST /bookings"}
    /\ Apply(Commit(Session, route), One(r), <<>>)
    /\ last' = Did("viewFetchDone", NoData)
    /\ UNCHANGED <<phase, era, ui>>

\* BookingForm.handleSubmit after the await, request fulfilled
\* (setSuccess(true)) or rejected (console.error and alert): view-local.
BookingDone(r) ==
    /\ r \in Pending /\ r.ep = "POST /bookings"
    /\ Apply(Commit(Session, route), One(r), <<>>)
    /\ last' = Did("bookingDone", NoData)
    /\ UNCHANGED <<phase, era, ui>>

----------------------------------------------------------------------------

Next ==
    \/ MountChildren
    \/ MountAuthProvider
    \/ \E r \in Routes : Goto(r)
    \/ ClickLogout
    \/ Submit
    \/ ApplyFiltersClick
    \/ BookingSubmit
    \/ \E r \in Pending, td \in TokenData : SubmitOk(r, td)
    \/ \E r \in Pending : SubmitFail(r)
    \/ \E r \in Pending, u \in Users : MeOk(r, u)
    \/ \E r \in Pending : MeFail(r)
    \/ \E r \in Pending : ViewFetchDone(r)
    \/ \E r \in Pending : BookingDone(r)

Spec == Init /\ [][Next]_vars

----------------------------------------------------------------------------
(* Views, one at a time.  The specification ViewSpec mounts one view and   *)
(* follows its handlers; ui holds the state of that view, inflight the     *)
(* requests of its handlers.  A request of a view carries, next to the     *)
(* endpoint and the header, what the handler put into it.                  *)

ViewRequest(ep, detail) == [ep |-> ep, auth |-> header, detail |-> detail]

\* The detail of a request whose handler put nothing into it.
NoDetail == [url |-> NULL]

\* JavaScript truthiness of a string.
TruthyStr(v) == v # ""

\* JavaScript truthiness of the numeric field f of object o: false when
\* the field is missing (undefined or null) or 0.
TruthyField(o, f) == f \in DOMAIN o /\ o[f] # 0

----------------------------------------------------------------------------
(* VenueList: filters and the query string of fetchVenues *)

\* Object.entries(filters): the keys in the order of the object literal.
FilterKeys == <<"location", "event_type", "min_price", "max_price", "min_capacity">>

\* useState({location: '', event_type: '', ...})
NoFilters == [k \in Range(FilterKeys) |-> ""]

\* What the inputs of the view can hold: text, the options of the select,
\* the text of a number input.  No input is bound to min_capacity.
FilterInputs ==
    [location   |-> {"", "Austin", "New York", "R&B"},
     event_type |-> {"", "wedding", "birthday", "graduation", "corporate"},
     min_price  |-> {"", "0", "50"},
     max_price  |-> {"", "0", "50"}]

\* application/x-www-form-urlencoded serialisation of a value, as done by
\* URLSearchParams.toString(): a space becomes '+', '&' is percent-encoded,
\* letters and digits stay.
Encode(v) ==
    CASE v = "New York" -> "New+York"
      [] v = "R&B"      -> "R%26B"
      [] OTHER          -> v

\* URLSearchParams.toString() of a list of <<key, value>> pairs.
RECURSIVE toString(_)
toString(params) ==
    IF params = <<>> THEN ""
    ELSE LET kv == Head(params)
             pair == Encode(kv[1]) \o "=" \o Encode(kv[2])
         IN  IF Len(params) = 1 THEN pair
             ELSE pair \o "&" \o toString(Tail(params))

\* The forEach of fetchVenues without the test of the value.
RECURSIVE AppendFilters_All(_, _, _)
AppendFilters_All(filters, i, params) ==
    IF i > Len(FilterKeys) THEN params
    ELSE AppendFilters_All(filters, i + 1,
                           Append(params, <<FilterKeys[i], filters[FilterKeys[i]]>>))

\* Object.entries(filters).forEach(([key, value]) => { if (value)
\* params.append(key, value) }), from entry i on.
RECURSIVE AppendFilters(_, _, _)
AppendFilters(filters, i, params) ==
    IF i > Len(FilterKeys) THEN params
    ELSE LET key == FilterKeys[i]
             value == filters[key]
         IN  AppendFilters(filters, i + 1,
                           IF TruthyStr(value) THEN Append(params, <<key, value>>)
                           ELSE params)

\* fetchVenues: the params it builds and the URL it requests.
fetchVenuesParams(filters) == AppendFilters(filters, 1, <<>>)

fetchVenuesUrl(filters) == "/venues?" \o toString(fetchVenuesParams(filters))

\* HomePage.handleSearch: the path it navigates to.
handleSearchUrl(searchLocation, eventType) ==
    LET p1 == IF TruthyStr(searchLocation) THEN <<<<"location", searchLocation>>>> ELSE <<>>
        p2 == IF TruthyStr(eventType) THEN Append(p1, <<"event_type", eventType>>) ELSE p1
    IN  "/venues?" \o toString(p2)

----------------------------------------------------------------------------
(* VenueDetail and BookingForm: prices *)

\* Money is counted in exact integers: a price in thousandths of a dollar,
\* an amount (price times hours times a rate in thousandths) in millionths.
Mills == 1000

\* The default of the fallback, 100 dollars.
DefaultDollars == 100

DefaultPrice == DefaultDollars * Mills

\* Bounds of the prices a venue can carry: every price up to MaxMills
\* thousandths, whole cents up to MaxCents, whole dollars up to MaxDollars.
MaxMills == 12

MaxCents == 5

MaxDollars == 2

Prices ==
    (0 .. MaxMills) \cup {c * 10 : c \in 1 .. MaxCents}
        \cup {d * Mills : d \in 1 .. MaxDollars} \cup {DefaultPrice}

\* The ids the path /venues/:id is visited with.
VenueIds == {"A", "B"}

\* A venue as the API returns it: each price field is present or missing
\* (undefined or null).
VenuesOf(id, prices) ==
    [id : {id}, price_per_hour : prices, price_per_day : prices]
        \cup [id : {id}, price_per_hour : prices]
        \cup [id : {id}, price_per_day : prices]
        \cup [id : {id}]

\* The venues of the API: every price for the first id, one price for the
\* second.
Venues == VenuesOf("A", Prices) \cup VenuesOf("B", {Mills})

\* useState(null) of VenueDetail.
NoVenue == [id |-> NULL]

\* The fallback with the two fields in the other order.
EffectivePrice_DayFirst(venue) ==
    IF TruthyField(venue, "price_per_day") THEN venue.price_per_day
    ELSE IF TruthyField(venue, "price_per_hour") THEN venue.price_per_hour
    ELSE DefaultPrice

\* venue.price_per_hour || venue.price_per_day || 100
EffectivePrice(venue) ==
    IF TruthyField(venue, "price_per_hour") THEN venue.price_per_hour
    ELSE IF TruthyField(venue, "price_per_day") THEN venue.price_per_day
    ELSE DefaultPrice

\* The factors of the booking: 4 hours, 0.025, 0.975 and 1.025 in thousandths.
Hours == 4

FeeRate == 25

PayoutRate == 975

TotalRate == 1025

\* bookingData with the service fee taken from one hour.
bookingData_HourlyFee(venue) ==
    LET pricePerHour == EffectivePrice(venue)
    IN  [price_per_hour |-> pricePerHour,
         total_amount   |-> pricePerHour * Hours * Mills,
         service_fee    |-> pricePerHour * FeeRate,
         owner_payout   |-> pricePerHour * Hours * PayoutRate]

\* bookingData of handleSubmit: the price in thousandths, the amounts in
\* millionths.
bookingData(venue) ==
    LET pricePerHour == EffectivePrice(venue)
    IN  [price_per_hour |-> pricePerHour,
         total_amount   |-> pricePerHour * Hours * Mills,
         service_fee    |-> pricePerHour * Hours * FeeRate,
         owner_payout   |-> pricePerHour * Hours * PayoutRate]

\* An estimate whose total leaves the fee out.
estimateAmounts_NoFee(venue) ==
    [base  |-> EffectivePrice(venue) * Hours * Mills,
     fee   |-> EffectivePrice(venue) * Hours * FeeRate,
     total |-> EffectivePrice(venue) * Hours * Mills]

\* The three amounts of the pricing estimate before toFixed, in millionths.
estimateAmounts(venue) ==
    [base  |-> EffectivePrice(venue) * Hours * Mills,
     fee   |-> EffectivePrice(venue) * Hours * FeeRate,
     total |-> EffectivePrice(venue) * Hours * TotalRate]

\* One cent in millionths, and half of it.
Cent == 10000

HalfCent == 5000

\* x.toFixed(2) of an amount x >= 0, as a number of cents: the nearest cent.
\* The double that stands for an amount halfway between two cents lies on
\* one side of it or the other by its representation error, so both cents
\* are results a run can show.
toFixed2(x) ==
    IF x % Cent = HalfCent THEN {x \div Cent, x \div Cent + 1}
    ELSE {(x + HalfCent) \div Cent}

\* The header of VenueDetail: the price it shows.
headerPrice(venue) == EffectivePrice(venue)

----------------------------------------------------------------------------
(* The two definitions of App in the file and the view each mounts *)

Apps == {"first", "second"}

\* <Routes> of the second definition of App: it has no route for
\* /venues/:id, so nothing is rendered there.
RouteElementSecond(r, u) ==
    CASE r = "/"           -> "HomePage"
      [] r = "/venues"     -> "VenueList"
      [] r = "/venues/:id" -> "NoMatch"
      [] r = "/login"      -> "LoginPage"
      [] r = "/register"   -> "RegisterPage"
      [] r = "/dashboard"  -> Dashboard(u)

RouteElementOf(app, r, u) ==
    IF app = "first" THEN RouteElement(r, u) ELSE RouteElementSecond(r, u)

Dashboards == {"UserDashboard", "OwnerDashboard", "AdminDashboard"}

\* The BookingForm of a VenueDetail that shows none.
NoForm ==
    [id |-> 0, formData |-> "empty", loading |-> FALSE, success |-> FALSE,
     estimate |-> [base |-> 0, fee |-> 0, total |-> 0]]

\* The useState initial values of a view, by component; mounted is FALSE
\* until the first commit of the view, which runs its mount effect if it
\* has one.
InitialView(kind, app) ==
    CASE kind = "HomePage" ->
           [kind |-> kind, app |-> app, mounted |-> FALSE,
            searchLocation |-> "", eventType |-> "", featuredVenues |-> "[]"]
      [] kind = "VenueList" ->
           [kind |-> kind, app |-> app, mounted |-> FALSE,
            venues |-> "[]", loading |-> TRUE, filters |-> NoFilters]
      [] kind = "VenueDetail" ->
           [kind |-> kind, app |-> app, mounted |-> FALSE, id |-> "A",
            venue |-> NoVenue, loading |-> TRUE, error |-> "",
            showBookingForm |-> FALSE, forms |-> 0, form |-> NoForm]
      [] kind \in {"LoginPage", "RegisterPage"} ->
           [kind |-> kind, app |-> app, mounted |-> FALSE,
            loading |-> FALSE, error |-> ""]
      [] kind \in Dashboards ->
           [kind |-> kind, app |-> app, mounted |-> FALSE,
            dashboardData |-> NULL, loading |-> TRUE]
      [] OTHER ->
           [kind |-> kind, app |-> app, mounted |-> FALSE]

\* The view that replaced the one under study after a navigate().
Navigated(to) == [kind |-> "Navigated", app |-> ui.app, mounted |-> TRUE, to |-> to]

\* A session restored and resolved for user u; no session for NULL.
SessionOf(u) ==
    IF u = NULL THEN Cleared
    ELSE [ls |-> "t1", token |-> "t1", user |-> u, header |-> Bearer("t1")]

\* The step of a view handler: the session, the route and the phase stay.
ViewStep(done, q, op, data) ==
    /\ inflight' = (inflight (-) done) (+) SeqToBag(q)
    /\ sent' = q
    /\ last' = Did(op, data)
    /\ UNCHANGED <<ls, token, user, header, route, phase, era>>

\* The users a view is studied with: every user and none on /dashboard,
\* one user and none elsewhere.
ViewUsers(r) ==
    IF r = "/dashboard" THEN Users \cup {NULL} ELSE {"u_owner", NULL}

\* A view, mounted by either definition of App on any path; or AuthProvider
\* alone on its first commit with a persisted token, below it a page
\* without fetches.
ViewInit ==
    /\ \/ \E app \in Apps, r \in Routes : \E u \in ViewUsers(r) :
            LET r2 == IF RouteElementOf(app, r, u) = "Navigate:/login"
                      THEN "/login" ELSE r
            IN  /\ ls = SessionOf(u).ls
                /\ token = SessionOf(u).token
                /\ user = u
                /\ header = SessionOf(u).header
                /\ route = r2
                /\ phase = "ready"
                /\ ui = InitialView(RouteElementOf(app, r2, u), app)
       \/ \E app \in Apps :
            /\ ls \in Tokens
            /\ token = ls
            /\ user = NULL
            /\ header = NULL
            /\ route = "/register"
            /\ phase = "children"
            /\ ui = [kind |-> "AuthProvider", app |-> app, mounted |-> TRUE]
    /\ inflight = EmptyBag
    /\ sent = <<>>
    /\ last = [op |-> "render", prev |-> [token |-> NULL, user |-> NULL],
               era |-> EraStart, data |-> NoData]
    /\ era = EraStart

\* The request of the mount effect of a view.
MountRequest(v) ==
    CASE v.kind = "HomePage"       -> <<ViewRequest("GET /venues", NoDetail)>>
      [] v.kind = "VenueList"      -> <<ViewRequest("GET /venues?",
                                         [url |-> fetchVenuesUrl(v.filters),
                                          params |-> fetchVenuesParams(v.filters)])>>
      [] v.kind = "VenueDetail"    -> <<ViewRequest("GET /venues/:id", [url |-> v.id])>>
      [] v.kind = "UserDashboard"  -> <<ViewRequest("GET /dashboard/user", NoDetail)>>
      [] v.kind = "OwnerDashboard" -> <<ViewRequest("GET /dashboard/owner", NoDetail)>>
      [] v.kind = "AdminDashboard" -> <<ViewRequest("GET /dashboard/admin", NoDetail)>>
      [] OTHER                     -> <<>>

\* useEffect(() => { fetch...() }, []) of the view.
MountView ==
    /\ ~ui.mounted
    /\ ui' = [ui EXCEPT !.mounted = TRUE]
    /\ ViewStep(EmptyBag, MountRequest(ui), "mount", NoData)

\* What a step that handled a rejected request records: the call site, the
\* view before it, whether alert() was called, whether the catch block threw
\* again, and the detail of the response if the site reads it.
Caught(site, alert, detail) ==
    [site |-> site, before |-> ui, alert |-> alert, rethrown |-> FALSE,
     detail |-> detail]

----------------------------------------------------------------------------
(* HomePage *)

\* catch of fetchFeaturedVenues: console.error only.
fetchFeaturedVenuesCatch(v) == v

\* onChange of the location input and of the event type select.
HomePage_Input(field, value) ==
    /\ ui.kind = "HomePage" /\ ui.mounted
    /\ ui[field] # value
    /\ ui' = [ui EXCEPT ![field] = value]
    /\ ViewStep(EmptyBag, <<>>, "input", NoData)

\* handleSearch: navigate(`/venues?${params.toString()}`); the router
\* renders VenueList in place of HomePage.  The URL navigated to is the
\* data of the step.
HomePage_handleSearch ==
    /\ ui.kind = "HomePage" /\ ui.mounted
    /\ ui' = InitialView(RouteElementOf(ui.app, "/venues", user), ui.app)
    /\ route' = "/venues"
    /\ inflight' = inflight
    /\ sent' = <<>>
    /\ last' = Did("handleSearch",
                   [url |-> handleSearchUrl(ui.searchLocation, ui.eventType)])
    /\ UNCHANGED <<ls, token, user, header, phase, era>>

\* fetchFeaturedVenues after the await, fulfilled: response.data.slice(0, 6).
HomePage_Ok(r) ==
    /\ ui.kind = "HomePage" /\ r \in Pending /\ r.ep = "GET /venues"
    /\ ui' = [ui EXCEPT !.featuredVenues = "slice(0, 6)"]
    /\ ViewStep(One(r), <<>>, "ok", NoData)

\* fetchFeaturedVenues after the await, rejected.
HomePage_Fail(r) ==
    /\ ui.kind = "HomePage" /\ r \in Pending /\ r.ep = "GET /venues"
    /\ ui' = fetchFeaturedVenuesCatch(ui)
    /\ ViewStep(One(r), <<>>, "fail", Caught("fetchFeaturedVenues", FALSE, NULL))

----------------------------------------------------------------------------
(* VenueList *)

\* A fetchVenues whose loading flag is reset on success only.
fetchVenuesCatch_KeepLoading(v) == v

\* catch and finally of fetchVenues: console.error; setLoading(false).
fetchVenuesCatch(v) == [v EXCEPT !.loading = FALSE]

\* The inputs are rendered when loading is false.
VenueList_handleFilterChange(key, value) ==
    /\ ui.kind = "VenueList" /\ ui.mounted /\ ~ui.loading
    /\ ui.filters[key] # value
    /\ ui' = [ui EXCEPT !.filters[key] = value]
    /\ ViewStep(EmptyBag, <<>>, "handleFilterChange", NoData)

\* applyFilters: fetchVenues() up to the await.
VenueList_applyFilters ==
    /\ ui.kind = "VenueList" /\ ui.mounted /\ ~ui.loading
    /\ ui' = [ui EXCEPT !.loading = TRUE]
    /\ ViewStep(EmptyBag, MountRequest(ui), "applyFilters", NoData)

\* fetchVenues after the await, fulfilled: setVenues(response.data).
VenueList_Ok(r) ==
    /\ ui.kind = "VenueList" /\ r \in Pending /\ r.ep = "GET /venues?"
    /\ ui' = [ui EXCEPT !.venues = "response.data", !.loading = FALSE]
    /\ ViewStep(One(r), <<>>, "ok", NoData)

\* fetchVenues after the await, rejected.
VenueList_Fail(r) ==
    /\ ui.kind = "VenueList" /\ r \in Pending /\ r.ep = "GET /venues?"
    /\ ui' = fetchVenuesCatch(ui)
    /\ ViewStep(One(r), <<>>, "fail", Caught("fetchVenues", FALSE, NULL))

----------------------------------------------------------------------------
(* VenueDetail and BookingForm *)

\* Bound: the number of times the booking form is opened.
MaxForms == 2

\* A catch of fetchVenue that sets no error.
fetchVenueCatch_Silent(v) == [v EXCEPT !.loading = FALSE]

\* catch and finally of fetchVenue: setError('Venue not found');
\* setLoading(false).
fetchVenueCatch(v) == [v EXCEPT !.error = "Venue not found", !.loading = FALSE]

\* The three lines of the pricing estimate as the form renders them from its
\* venue prop, each through toFixed(2).
renderEstimate(venue) ==
    [base : toFixed2(estimateAmounts(venue).base),
     fee : toFixed2(estimateAmounts(venue).fee),
     total : toFixed2(estimateAmounts(venue).total)]

\* The id parameter of the path changes under the mounted view (history,
\* link): the effect with dependency [id] calls fetchVenue() for the new id.
\* Bound: the id changes before the first booking form is opened.
VenueDetail_ChangeId(id) ==
    /\ ui.kind = "VenueDetail" /\ ui.mounted
    /\ Room /\ ui.forms = 0
    /\ id # ui.id
    /\ ui' = [ui EXCEPT !.id = id]
    /\ ViewStep(EmptyBag, MountRequest(ui'), "changeId", NoData)

\* fetchVenue after the await, fulfilled with venue v, the venue of the id
\* of the request.  Bound: a venue fetched again while the view holds it
\* comes back unchanged.
VenueDetail_Ok(r, v) ==
    /\ ui.kind = "VenueDetail" /\ r \in Pending /\ r.ep = "GET /venues/:id"
    /\ v.id = r.detail.url
    /\ ui.venue.id = v.id => v = ui.venue
    /\ ui' = [ui EXCEPT !.venue = v, !.loading = FALSE]
    /\ ViewStep(One(r), <<>>, "ok", NoData)

\* fetchVenue after the await, rejected.
VenueDetail_Fail(r) ==
    /\ ui.kind = "VenueDetail" /\ r \in Pending /\ r.ep = "GET /venues/:id"
    /\ ui' = fetchVenueCatch(ui)
    /\ ViewStep(One(r), <<>>, "fail", Caught("fetchVenue", FALSE, NULL))

\* The view renders the venue: not loading, no error, a venue.
VenueShown == ui.kind = "VenueDetail" /\ ~ui.loading /\ ui.error = "" /\ ui.venue # NoVenue

\* 'Book This Venue': setShowBookingForm(true) mounts a BookingForm, which
\* renders the pricing estimate of the venue.  Bound: the form is opened
\* on the venue of the path, when no fetch of a venue is in flight.
OpenBookingForm ==
    /\ VenueShown /\ ~ui.showBookingForm
    /\ ui.venue.id = ui.id
    /\ \A r \in Pending : r.ep # "GET /venues/:id"
    /\ ui.forms < MaxForms
    /\ \E e \in renderEstimate(ui.venue) :
            ui' = [ui EXCEPT !.showBookingForm = TRUE,
                             !.forms = @ + 1,
                             !.form = [id |-> ui.forms + 1, formData |-> "empty",
                                       loading |-> FALSE, success |-> FALSE,
                                       estimate |-> e]]
    /\ ViewStep(EmptyBag, <<>>, "openForm", NoData)

\* onClose (Cancel, or Close of the success view) unmounts the form.
CloseBookingForm ==
    /\ VenueShown /\ ui.showBookingForm
    /\ ui' = [ui EXCEPT !.showBookingForm = FALSE, !.form = NoForm]
    /\ ViewStep(EmptyBag, <<>>, "closeForm", NoData)

\* A submit button that is never disabled.
CanSubmit_Always(form) == ~form.success

\* The form can be submitted: the success view has no form, and the submit
\* button is disabled while loading.
CanSubmit(form) == ~form.success /\ ~form.loading

\* handleChange of the inputs of the form.
BookingForm_handleChange(value) ==
    /\ VenueShown /\ ui.showBookingForm /\ ~ui.form.success
    /\ ui.form.formData # value
    /\ ui' = [ui EXCEPT !.form.formData = value]
    /\ ViewStep(EmptyBag, <<>>, "handleChange", NoData)

\* BookingForm.handleSubmit up to the await.
BookingForm_handleSubmit ==
    /\ VenueShown /\ ui.showBookingForm
    /\ CanSubmit(ui.form)
    /\ ui' = [ui EXCEPT !.form.loading = TRUE]
    /\ ViewStep(EmptyBag,
                <<ViewRequest("POST /bookings",
                              [form |-> ui.form.id, body |-> bookingData(ui.venue)])>>,
                "bookingSubmit", NoData)

\* The form that sent r is still mounted.
FormOf(r) == ui.showBookingForm /\ ui.form.id = r.detail.form

\* handleSubmit after the await, fulfilled: setSuccess(true);
\* setLoading(false).  State of an unmounted form is dropped.
BookingForm_Ok(r) ==
    /\ ui.kind = "VenueDetail" /\ r \in Pending /\ r.ep = "POST /bookings"
    /\ ui' = IF FormOf(r)
             THEN [ui EXCEPT !.form.success = TRUE, !.form.loading = FALSE]
             ELSE ui
    /\ ViewStep(One(r), <<>>, "ok", NoData)

\* handleSubmit after the await, rejected: console.error; alert(...);
\* setLoading(false).
BookingForm_Fail(r) ==
    /\ ui.kind = "VenueDetail" /\ r \in Pending /\ r.ep = "POST /bookings"
    /\ ui' = IF FormOf(r) THEN [ui EXCEPT !.form.loading = FALSE] ELSE ui
    /\ ViewStep(One(r), <<>>, "fail", Caught("BookingForm.handleSubmit", TRUE, r.detail.form))

----------------------------------------------------------------------------
(* The three dashboards *)

\* catch and finally of fetchDashboardData: console.error; setLoading(false).
fetchDashboardDataCatch(v) == [v EXCEPT !.loading = FALSE]

DashboardEndpoints == {"GET /dashboard/user", "GET /dashboard/owner", "GET /dashboard/admin"}

\* fetchDashboardData after the await, fulfilled.
Dashboard_Ok(r) ==
    /\ ui.kind \in Dashboards /\ r \in Pending /\ r.ep \in DashboardEndpoints
    /\ ui' = [ui EXCEPT !.dashboardData = "data", !.loading = FALSE]
    /\ ViewStep(One(r), <<>>, "ok", NoData)

\* fetchDashboardData after the await, rejected.
Dashboard_Fail(r) ==
    /\ ui.kind \in Dashboards /\ r \in Pending /\ r.ep \in DashboardEndpoints
    /\ ui' = fetchDashboardDataCatch(ui)
    /\ ViewStep(One(r), <<>>, "fail", Caught("fetchDashboardData", FALSE, NULL))

----------------------------------------------------------------------------
(* LoginPage and RegisterPage *)

AuthPages == {"LoginPage", "RegisterPage"}

\* error.response?.data?.detail of a rejected request: NULL when there is no
\* response or no detail, else the text the server sent.
Details == {NULL, "", "Invalid credentials", "Email already registered"}

GenericMessage(kind) ==
    IF kind = "LoginPage" THEN "Login failed" ELSE "Registration failed"

\* The message without the fallback.
handleSubmitError_NoFallback(kind, detail) == detail

\* error.response?.data?.detail || 'Login failed' (or 'Registration failed')
handleSubmitError(kind, detail) ==
    IF Truthy(detail) THEN detail ELSE GenericMessage(kind)

\* handleSubmit up to the await: setLoading(true); setError(''); the submit
\* button is disabled while loading.
AuthForm_handleSubmit ==
    /\ ui.kind \in AuthPages /\ ui.mounted /\ ~ui.loading
    /\ ui' = [ui EXCEPT !.loading = TRUE, !.error = ""]
    /\ ViewStep(EmptyBag,
                <<ViewRequest(IF ui.kind = "LoginPage" THEN "POST /auth/login"
                              ELSE "POST /auth/register", NoDetail)>>,
                "authSubmit", [before |-> ui])

\* handleSubmit after the await, fulfilled: login(response.data);
\* navigate('/dashboard').  The requests of the views mounted after the
\* navigation are dispatched and not followed further.
AuthForm_Ok(r, tokenData) ==
    /\ ui.kind \in AuthPages /\ r \in Pending /\ IsAuthPost(r)
    /\ Apply(Commit(login(Session, tokenData), "/dashboard"), One(r), <<>>)
    /\ ui' = Navigated("/dashboard")
    /\ last' = Did("authOk", tokenData)
    /\ era' = tokenData
    /\ UNCHANGED phase

\* handleSubmit after the await, rejected: setError(...); setLoading(false).
AuthForm_Fail(r, detail) ==
    /\ ui.kind \in AuthPages /\ r \in Pending /\ IsAuthPost(r)
    /\ ui' = [ui EXCEPT !.error = handleSubmitError(ui.kind, detail),
                        !.loading = FALSE]
    /\ ViewStep(One(r), <<>>, "fail", Caught("handleSubmit", FALSE, detail))

----------------------------------------------------------------------------

\* The steps of the views but the fulfilled fetch of a venue.
ViewSteps ==
    \/ MountView
    \/ \E v \in FilterInputs.location : HomePage_Input("searchLocation", v)
    \/ \E v \in FilterInputs.event_type : HomePage_Input("eventType", v)
    \/ HomePage_handleSearch
    \/ \E r \in Pending : HomePage_Ok(r)
    \/ \E r \in Pending : HomePage_Fail(r)
    \/ \E key \in DOMAIN FilterInputs : \E value \in FilterInputs[key] :
          VenueList_handleFilterChange(key, value)
    \/ VenueList_applyFilters
    \/ \E r \in Pending : VenueList_Ok(r)
    \/ \E r \in Pending : VenueList_Fail(r)
    \/ \E id \in VenueIds : VenueDetail_ChangeId(id)
    \/ \E r \in Pending : VenueDetail_Fail(r)
    \/ OpenBookingForm
    \/ CloseBookingForm
    \/ \E value \in {"empty", "filled"} : BookingForm_handleChange(value)
    \/ BookingForm_handleSubmit
    \/ \E r \in Pending : BookingForm_Ok(r)
    \/ \E r \in Pending : BookingForm_Fail(r)
    \/ \E r \in Pending : Dashboard_Ok(r)
    \/ \E r \in Pending : Dashboard_Fail(r)
    \/ AuthForm_handleSubmit
    \/ \E r \in Pending, td \in TokenData : AuthForm_Ok(r, td)
    \/ \E r \in Pending, d \in Details : AuthForm_Fail(r, d)
    \/ MountAuthProvider
    \/ \E r \in Pending, u \in Users : MeOk(r, u)
    \/ \E r \in Pending : MeFail(r)

ViewNext ==
    \/ ViewSteps
    \/ \E r \in Pending, v \in Venues : VenueDetail_Ok(r, v)

ViewSpec == ViewInit /\ [][ViewNext]_vars

\* Bound of ViewLive: the venues the API returns have one price.
LiveVenues == VenuesOf("A", {Mills}) \cup VenuesOf("B", {Mills})

\* The completion of a request of each view, fulfilled or rejected.
VenueList_Done == \E r \in Pending : VenueList_Ok(r) \/ VenueList_Fail(r)

VenueDetail_Done ==
    \E r \in Pending : VenueDetail_Fail(r) \/ \E v \in LiveVenues : VenueDetail_Ok(r, v)

BookingForm_Done == \E r \in Pending : BookingForm_Ok(r) \/ BookingForm_Fail(r)

Dashboard_Done == \E r \in Pending : Dashboard_Ok(r) \/ Dashboard_Fail(r)

AuthForm_Done ==
    \E r \in Pending :
        \/ \E td \in TokenData : AuthForm_Ok(r, td)
        \/ \E d \in Details : AuthForm_Fail(r, d)

LiveNext ==
    \/ ViewSteps
    \/ \E r \in Pending, v \in LiveVenues : VenueDetail_Ok(r, v)

\* The views under the assumption that React runs the effects of a commit
\* and that every dispatched request of a view completes.
ViewLive ==
    /\ ViewInit /\ [][LiveNext]_vars
    /\ WF_vars(MountView)
    /\ WF_vars(VenueList_Done)
    /\ WF_vars(VenueDetail_Done)
    /\ WF_vars(BookingForm_Done)
    /\ WF_vars(Dashboard_Done)
    /\ WF_vars(AuthForm_Done)

----------------------------------------------------------------------------
(* Properties *)

Me == "GET /auth/me"

\* The requests for GET /auth/me among q carry the header of token t.
MeWith(q, t) == \E i \in DOMAIN q : q[i].ep = Me /\ q[i].auth = Bearer(t)

\* C1: logout() leaves the persisted token, the in-memory token, the
\* in-memory user and the default Authorization header all absent, from
\* every reachable session state; applied again it changes nothing.
C1_LogoutClears ==
    /\ last.op \in {"logout", "meFail"} => Session = Cleared
    /\ logout(Session) = Cleared
    /\ logout(logout(Session)) = logout(Session)

\* C1 witness: logout() ran a second time, from the session a first
\* logout() had cleared, while a profile fetch was still in flight.
C1_Witness ==
    /\ last.op = "meFail"
    /\ last.prev.token = NULL
    /\ last.prev.user = NULL
    /\ last.era = EraLoggedOut
    /\ Session = Cleared

\* C2: after a failure of GET /auth/me has been handled, nothing of the
\* session is left: no persisted token, no in-memory token, no user, no
\* default header.
C2_FetchFailureClearsAll ==
    last.op = "meFail" =>
        /\ ls = NULL
        /\ token = NULL
        /\ user = NULL
        /\ header = NULL

\* C2 witness: the fetch issued for a token restored at startup failed,
\* with no login or logout in between.
C2_Witness ==
    /\ last.op = "meFail"
    /\ last.era = EraStart
    /\ last.prev.token \in Tokens
    /\ Session = Cleared

\* C3: on the first commit, a persisted token is attached as 'Bearer
\* <token>' and exactly one GET /auth/me is issued; with no persisted token
\* no header is set, no GET /auth/me is issued and the session stays
\* unauthenticated.
C3_Restore ==
    /\ last.op = "mountChildren" => Count(sent, Me) = 0
    /\ last.op = "restore" =>
          IF ls # NULL
          THEN /\ header = Bearer(ls)
               /\ Count(sent, Me) = 1
               /\ Len(sent) = 1
               /\ MeWith(sent, ls)
          ELSE /\ header = NULL
               /\ sent = <<>>
               /\ token = NULL
               /\ user = NULL

\* C3 witness: the restore ran with a persisted token.
C3_Witness ==
    /\ last.op = "restore"
    /\ ls \in Tokens
    /\ Count(sent, Me) = 1

\* C4: right after login(tokenData) the persisted token and the in-memory
\* token are tokenData.access_token, the user is tokenData.user and the
\* default header is 'Bearer ' + tokenData.access_token.
C4_LoginSetsSession ==
    last.op = "login" =>
        /\ ls = last.data.access_token
        /\ token = last.data.access_token
        /\ user = last.data.user
        /\ header = Bearer(last.data.access_token)

\* C4 witness: a login replaced a session of another token and user.
C4_Witness ==
    /\ last.op = "login"
    /\ last.prev.token \in Tokens \ {last.data.access_token}
    /\ last.prev.user \in Users \ {last.data.user}
    /\ token = last.data.access_token

\* C5 as stated: login() causes no GET /auth/me, and the user set by a
\* login stays the user of its response until the next logout or login.
C5_Original ==
    /\ last.op = "login" => Count(sent, Me) = 0
    /\ LoggedIn => user = era.user

\* C5 amended: login() sets the user from its response; it causes exactly
\* one GET /auth/me, carrying the new token, when it changes the in-memory
\* token and none otherwise; until the next logout or login the user
\* changes only when a profile fetch completes.
C5_LoginThenRefetch ==
    /\ [](last.op = "login" =>
            /\ user = last.data.user
            /\ IF last.data.access_token # last.prev.token
               THEN Count(sent, Me) = 1 /\ MeWith(sent, last.data.access_token)
               ELSE Count(sent, Me) = 0)
    /\ [][(LoggedIn /\ era' = era /\ last'.op # "login" /\ user' # user)
            => last'.op = "meOk"]_vars

\* C5 witness: a login changed the token and GET /auth/me was issued by
\* the same step.
C5_Witness ==
    /\ last.op = "login"
    /\ last.data.access_token # last.prev.token
    /\ user = last.data.user
    /\ Count(sent, Me) = 1

\* C6: when the in-memory token takes a new non-empty value, at startup
\* or by login, GET /auth/me is dispatched with that token; when a GET
\* /auth/me fails, token, user, persisted token and header are cleared.
C6_TokenImpliesResolve ==
    /\ [][(token' # token /\ Truthy(token')) => MeWith(sent', token')]_vars
    /\ []((last.op = "restore" /\ Truthy(token)) => MeWith(sent, token))
    /\ [](last.op = "meFail" => Session = Cleared)

\* C6 witness: a login gave the in-memory token a new value and the fetch
\* for it is in flight.
C6_Witness ==
    /\ last.op = "login"
    /\ token # last.prev.token
    /\ MeWith(sent, token)
    /\ \E r \in Pending : r.ep = Me /\ r.auth = Bearer(token)

\* C7: between a login and the next logout every dispatched request
\* carries 'Bearer <token of that login>'; between a logout and the next
\* login no dispatched request carries an Authorization header.
C7_HeaderFollowsLogin ==
    \A i \in DOMAIN sent :
        /\ LoggedIn => sent[i].auth = Bearer(era.access_token)
        /\ era = EraLoggedOut => sent[i].auth = NULL

\* C7 witness: after a login, the venue list was fetched with the header
\* of the token of that login.
C7_Witness ==
    /\ LoggedIn
    /\ last.op = "goto"
    /\ \E i \in DOMAIN sent :
          sent[i].ep = "GET /venues?" /\ sent[i].auth = Bearer(era.access_token)

\* C8 as stated: every request dispatched while the in-memory token is
\* non-null carries 'Bearer <that token>'.  (No step changes the token
\* after it dispatched a request, so the token of the state a step ends
\* in is the token its requests were dispatched under.)
C8_Original ==
    \A i \in DOMAIN sent :
        token # NULL => sent[i].auth = Bearer(token)

\* C9: with a resolved user, /dashboard renders UserDashboard for role
\* 'user', OwnerDashboard for 'venue_owner', AdminDashboard for 'admin',
\* and for none of them the redirect to /login.
C9_RoleDispatch ==
    user # NULL =>
        LET v == RouteElement("/dashboard", user)
        IN  /\ UserRole(user) = "user" => v = "UserDashboard"
            /\ UserRole(user) = "venue_owner" => v = "OwnerDashboard"
            /\ UserRole(user) = "admin" => v = "AdminDashboard"
            /\ UserRole(user) \in {"user", "venue_owner", "admin"}
                  => /\ v # "Navigate:/login"
                     /\ Redirect("/dashboard", user) = "/dashboard"

\* C9 witness: /dashboard is shown to an admin and AdminDashboard has
\* mounted and dispatched its fetch.
C9_Witness ==
    /\ route = "/dashboard"
    /\ user # NULL
    /\ UserRole(user) = "admin"
    /\ \E i \in DOMAIN sent : sent[i].ep = "GET /dashboard/admin"

\* C10 as stated: whenever isAuthenticated is false and the path is
\* /dashboard, the element rendered is the redirect to /login and not a
\* role dashboard.
C10_Original ==
    (~isAuthenticated(Session) /\ route = "/dashboard") =>
        RouteElement(route, user) = "Navigate:/login"

\* C11 as stated: whenever a profile fetch (GET /auth/me) fails, the session
\* is logged out and the router shows the login view, whichever route was
\* displayed.
C11_Original ==
    last.op = "meFail" => Session = Cleared /\ route = "/login"

\* C11: whenever a profile fetch (GET /auth/me) fails, the session is logged
\* out (persisted token, token, user and default header all cleared); the
\* router moves to /login when the failure happens on /dashboard, and stays
\* on the displayed route otherwise.
C11_ExpiryLogsOut ==
    last.op = "meFail" =>
        /\ Session = Cleared
        /\ route = IF last.data.from = "/dashboard" THEN "/login" ELSE last.data.from

C11_Witness ==
    last.op = "meFail" /\ last.data.from = "/dashboard" /\ route = "/login"

\* No endpoint occurs twice among the requests of one step.
SentOnce == \A i, j \in DOMAIN sent : sent[i].ep = sent[j].ep => i = j

\* The step made the token non-empty, or was the effect of the first commit
\* with a non-empty token.
TokenBecameSet ==
    /\ Truthy(token)
    /\ \/ last.op = "restore"
       \/ last.op # "render" /\ token # last.prev.token

\* C16: nothing is retried: a step dispatches no endpoint twice; a step that
\* handles the completion of a login/register POST, of GET /auth/me, of a view
\* fetch or of the booking POST dispatches nothing; a form submit and an Apply
\* Filters click dispatch exactly their one request, a view mount exactly the
\* fetch of the mounted view, and GET /auth/me is sent exactly once when the
\* token became non-empty and not otherwise.
C16_NoRetry ==
    /\ SentOnce
    /\ last.op \in {"submitFail", "meFail", "viewFetchDone", "bookingDone"} =>
           sent = <<>>
    /\ last.op = "submit" => Len(sent) = 1 /\ IsAuthPost(sent[1])
    /\ last.op = "applyFilters" => sent = <<Request("GET /venues?", Session)>>
    /\ last.op = "bookingSubmit" => sent = <<Request("POST /bookings", Session)>>
    /\ last.op \in {"goto", "mountChildren"} =>
           sent = MountFetch(RouteElement(route, user), Session)
    /\ Count(sent, Me) = IF TokenBecameSet THEN 1 ELSE 0

C16_Witness ==
    /\ last.op = "bookingDone"
    /\ sent = <<>>
    /\ \A r \in Pending : r.ep # "POST /bookings"

\* C18: the step that handles a rejected login or register request leaves
\* the persisted token, the token, the user and the default header as they
\* were, calls no login() (era unchanged), does not move the router and
\* dispatches nothing.
C18_FailedSubmitFrame ==
    [][last'.op = "submitFail" =>
          /\ UNCHANGED <<ls, token, user, header, route, era>>
          /\ sent' = <<>>]_vars

C18_Witness ==
    /\ last.op = "submitFail"
    /\ Session = [ls |-> "t1", token |-> "t1", user |-> "u_user", header |-> Bearer("t1")]
    /\ route = "/login"

----------------------------------------------------------------------------
(* Properties of the views, checked under ViewSpec *)

\* The position of a key in FilterKeys.
KeyPos(k) == CHOOSE i \in DOMAIN FilterKeys : FilterKeys[i] = k

\* params holds a pair for exactly the keys of f with a non-empty value,
\* each once, with that value, in the order of FilterKeys.
QueryOk(f, params) ==
    /\ \A k \in Range(FilterKeys) :
          Cardinality({i \in DOMAIN params : params[i][1] = k})
              = IF f[k] # "" THEN 1 ELSE 0
    /\ \A i \in DOMAIN params : params[i][2] = f[params[i][1]]
    /\ \A i, j \in DOMAIN params : i < j => KeyPos(params[i][1]) < KeyPos(params[j][1])

\* Every assignment of the five filters to the empty string or to "x".
FilterSpace == [Range(FilterKeys) -> {"", "x"}]

\* C12: for every assignment of the five filters the params built by
\* fetchVenues hold exactly the non-empty filters, each once, in the order
\* location, event_type, min_price, max_price, min_capacity; the request of
\* every mount and every Apply Filters click carries the query string of
\* the filters of the view; location Austin with event type wedding gives
\* location=Austin&event_type=wedding, and no filter gives the empty string.
C12_QueryString ==
    /\ \A f \in FilterSpace : QueryOk(f, fetchVenuesParams(f))
    /\ toString(fetchVenuesParams([k \in Range(FilterKeys) |-> "x"]))
          = "location=x&event_type=x&min_price=x&max_price=x&min_capacity=x"
    /\ (ui.kind = "VenueList" /\ last.op \in {"mount", "applyFilters"}) =>
          /\ Len(sent) = 1
          /\ QueryOk(ui.filters, sent[1].detail.params)
          /\ sent[1].detail.url = "/venues?" \o toString(sent[1].detail.params)
          /\ ui.filters = [NoFilters EXCEPT !.location = "Austin", !.event_type = "wedding"]
                => sent[1].detail.url = "/venues?location=Austin&event_type=wedding"
          /\ ui.filters = NoFilters => sent[1].detail.url = "/venues?"

C12_Witness ==
    /\ ui.kind = "VenueList"
    /\ last.op = "applyFilters"
    /\ sent[1].detail.url = "/venues?location=Austin&event_type=wedding"

\* One dollar in millionths.
Dollar == Mills * Mills

\* The booking requests in flight.
BookingPosts == {r \in Pending : r.ep = "POST /bookings"}

\* C13: the payload of every booking request has price_per_hour = P,
\* total_amount = 4P, service_fee = 4P x 0.025 (a tenth of P) and
\* owner_payout = 4P x 0.975 (3.9 P), P the effective hourly price of the
\* venue; for P = 100 dollars the amounts are 400, 10 and 390 dollars.
C13_BookingPayload ==
    \A r \in BookingPosts :
        LET P == EffectivePrice(ui.venue)
            b == r.detail.body
        IN  /\ b.price_per_hour = P
            /\ b.total_amount = 4 * P * Mills
            /\ b.service_fee = 100 * P
            /\ b.owner_payout = 3900 * P
            /\ b.service_fee + b.owner_payout = b.total_amount
            /\ P = 100 * Mills =>
                  /\ b.total_amount = 400 * Dollar
                  /\ b.service_fee = 10 * Dollar
                  /\ b.owner_payout = 390 * Dollar

C13_Witness ==
    \E r \in BookingPosts :
        /\ "price_per_hour" \in DOMAIN ui.venue
        /\ ui.venue.price_per_hour = 100 * Mills
        /\ r.detail.body.total_amount = 400 * Dollar
        /\ r.detail.body.service_fee = 10 * Dollar
        /\ r.detail.body.owner_payout = 390 * Dollar

\* The booking form is shown.
FormShown == ui.kind = "VenueDetail" /\ ui.showBookingForm

\* C14 as stated: the total estimate is total_amount plus service_fee of the
\* payload, 4P x 1.025, and the displayed base rate plus the displayed
\* service fee is the displayed total estimate, for every price.
C14_Original ==
    FormShown =>
        /\ estimateAmounts(ui.venue).total
              = bookingData(ui.venue).total_amount + bookingData(ui.venue).service_fee
        /\ ui.form.estimate.base + ui.form.estimate.fee = ui.form.estimate.total

\* C14: before rounding, the total estimate is total_amount plus service_fee
\* of the payload, 4P x 1.025; at 2 decimals the displayed base rate plus
\* the displayed service fee differs from the displayed total estimate by at
\* most one cent, and equals it when P is a whole number of dollars.
C14_Estimate ==
    FormShown =>
        LET P == EffectivePrice(ui.venue)
            a == estimateAmounts(ui.venue)
            e == ui.form.estimate
        IN  /\ a.total = bookingData(ui.venue).total_amount
                            + bookingData(ui.venue).service_fee
            /\ a.total = 4100 * P
            /\ e.base + e.fee <= e.total + 1
            /\ e.total <= e.base + e.fee + 1
            /\ P % Mills = 0 => e.base + e.fee = e.total

C14_Witness ==
    /\ FormShown
    /\ EffectivePrice(ui.venue) = 2 * Mills
    /\ ui.form.estimate = [base |-> 800, fee |-> 20, total |-> 820]

\* The price the fallback precedence gives for venue v.
FallbackPrice(v) ==
    IF "price_per_hour" \in DOMAIN v /\ v.price_per_hour # 0 THEN v.price_per_hour
    ELSE IF "price_per_day" \in DOMAIN v /\ v.price_per_day # 0 THEN v.price_per_day
    ELSE 100 * Mills

\* C15: the header of the venue, the pricing estimate and the booking payload
\* all use P = price_per_hour when present and non-zero, else price_per_day
\* when present and non-zero, else 100; P is never 0 or missing.
C15_PriceFallback ==
    (ui.kind = "VenueDetail" /\ ui.venue # NoVenue) =>
        LET P == FallbackPrice(ui.venue)
        IN  /\ P > 0
            /\ headerPrice(ui.venue) = P
            /\ estimateAmounts(ui.venue).base = 4 * P * Mills
            /\ bookingData(ui.venue).price_per_hour = P
            /\ \A r \in BookingPosts : r.detail.body.price_per_hour = P

C15_Witness ==
    /\ ui.kind = "VenueDetail"
    /\ ui.venue = [id |-> "A", price_per_hour |-> 0, price_per_day |-> 2 * Mills]
    /\ \E r \in BookingPosts : r.detail.body.price_per_hour = 2 * Mills

\* C17: a rejected login or register request sets the error of the page to
\* the detail of the response when there is one, else to 'Login failed' or
\* 'Registration failed'; every submit resets the error to empty, so the
\* error is empty while a request is in flight, and a fulfilled request
\* leaves the page.
C17_ErrorMessage ==
    /\ (last.op = "fail" /\ last.data.site = "handleSubmit") =>
          /\ ui.kind \in AuthPages
          /\ ui.error = IF last.data.detail \notin {NULL, ""} THEN last.data.detail
                        ELSE IF ui.kind = "LoginPage" THEN "Login failed"
                        ELSE "Registration failed"
    /\ last.op = "authSubmit" => ui.error = ""
    /\ (ui.kind \in AuthPages /\ ui.loading) => ui.error = ""
    /\ last.op = "authOk" => ui.kind = "Navigated"

\* A submit that follows a rejected one.
C17_Witness ==
    /\ last.op = "authSubmit"
    /\ last.data.before.error = "Invalid credentials"
    /\ ui.error = ""

\* The view shows an error of its own.
ErrorShown == "error" \in DOMAIN ui /\ ui.error # ""

\* C19 as stated: every rejected request is caught at its call site, is not
\* thrown again, and leaves view-local error state or an alert.
C19_Original ==
    last.op = "fail" =>
        /\ ~last.data.rethrown
        /\ ErrorShown \/ last.data.alert

\* The call sites whose catch block only writes to the console.
SilentSites == {"fetchFeaturedVenues", "fetchVenues", "fetchDashboardData"}

\* C19: every rejected request is caught at its call site and none is thrown
\* again.  fetchVenue and the login/register submits leave view-local error
\* state; the booking submit raises an alert; the profile fetch logs the
\* session out; the fetches of HomePage, VenueList and the three dashboards
\* leave no error state and no alert: the view is as before, not loading.
C19_FailureHandling ==
    /\ last.op = "fail" =>
          /\ ~last.data.rethrown
          /\ last.data.site \in {"fetchVenue", "handleSubmit"} =>
                ErrorShown /\ ~ui.loading /\ ~last.data.alert
          /\ last.data.site = "BookingForm.handleSubmit" =>
                last.data.alert /\ ~ErrorShown
          /\ last.data.site \in SilentSites =>
                /\ ~ErrorShown /\ ~last.data.alert
                /\ ui = IF "loading" \in DOMAIN ui
                        THEN [last.data.before EXCEPT !.loading = FALSE]
                        ELSE last.data.before
    /\ last.op = "meFail" => Session = Cleared

C19_Witness ==
    /\ last.op = "fail"
    /\ last.data.site = "fetchVenue"
    /\ ui.error = "Venue not found"

\* The view C20 names for a path.
ExpectedView(r) ==
    CASE r = "/"           -> {"HomePage"}
      [] r = "/venues"     -> {"VenueList"}
      [] r = "/venues/:id" -> {"VenueDetail"}
      [] r = "/login"      -> {"LoginPage"}
      [] r = "/register"   -> {"RegisterPage"}
      [] r = "/dashboard"  -> Dashboards

\* C20 as stated: the router renders for each of the six paths the one view
\* named for it, and the session changes the view on /dashboard only.
C20_Original ==
    last.op = "mount" =>
        /\ RouteElementOf(ui.app, route, user) \in ExpectedView(route)
        /\ route # "/dashboard" =>
              \A u \in Users \cup {NULL} :
                  RouteElementOf(ui.app, route, u) = RouteElementOf(ui.app, route, user)

----------------------------------------------------------------------------
(* Properties of the session under interleavings, checked under Spec *)

\* C21 as stated: a non-null user implies a non-null token, and after a
\* logout() the user stays null until the next successful login, whatever
\* completes in between.
C21_Original ==
    /\ user # NULL => token # NULL
    /\ era = EraLoggedOut => user = NULL

\* C22 as stated: the completion of a GET /auth/me that was issued for
\* another token than the current one leaves the session alone: its failure
\* does not clear the session and its success does not replace the user.
C22_Original ==
    [][\A r \in Pending :
          (r.ep = Me /\ Truthy(token) /\ r.auth # Bearer(token)) =>
              /\ MeFail(r) => UNCHANGED <<ls, token, user, header>>
              /\ \A u \in Users : MeOk(r, u) => user' = user]_vars

\* C24: once the effect of AuthProvider's first commit has run, the
\* persisted token, the in-memory token and the default header are all
\* absent, or the persisted token is the in-memory token T and the header
\* is 'Bearer T'.
C24_CredentialsAgree ==
    phase = "ready" =>
        \/ ls = NULL /\ token = NULL /\ header = NULL
        \/ ls \in Tokens /\ token = ls /\ header = Bearer(ls)

\* C24 witness: a login that followed a logout.
C24_Witness ==
    /\ last.op = "login"
    /\ last.era = EraLoggedOut
    /\ ls \in Tokens
    /\ token = ls
    /\ header = Bearer(ls)

\* C25: Dashboard redirects to /login whenever the user is null, whatever
\* the token: after the first commit no state shows /dashboard with a null
\* user, and a process started on /dashboard with a persisted token is on
\* /login after its first commit.
C25_NullUserRedirects ==
    /\ RouteElement("/dashboard", NULL) = "Navigate:/login"
    /\ (phase # "rendered" /\ user = NULL) => route # "/dashboard"
    /\ (last.op = "mountChildren" /\ last.data.from = "/dashboard") => route = "/login"

\* C25 witness: the process started on /dashboard with a persisted token;
\* isAuthenticated is true, the user is not resolved yet.
C25_Witness ==
    /\ last.op = "mountChildren"
    /\ last.data.from = "/dashboard"
    /\ isAuthenticated(Session)
    /\ user = NULL
    /\ route = "/login"

----------------------------------------------------------------------------
(* Properties of the dashboards, the booking form and the venue view,
   checked under ViewSpec *)

\* C26: the dashboard that mounts for a resolved user is OwnerDashboard
\* exactly for role 'venue_owner' and AdminDashboard exactly for role
\* 'admin'; a user with any other role, or with no role, gets UserDashboard
\* and its fetch of /dashboard/user.
C26_UnknownRoleIsUser ==
    (ui.kind \in Dashboards /\ last.op = "mount") =>
        /\ user # NULL
        /\ ui.kind = "OwnerDashboard" <=> UserRole(user) = "venue_owner"
        /\ ui.kind = "AdminDashboard" <=> UserRole(user) = "admin"
        /\ UserRole(user) \notin {"venue_owner", "admin"} =>
              /\ ui.kind = "UserDashboard"
              /\ Len(sent) = 1 /\ sent[1].ep = "GET /dashboard/user"

\* UserDashboard has mounted for a user whose role is none of the three.
C26_Witness ==
    /\ ui.kind = "UserDashboard" /\ last.op = "mount"
    /\ user \in {"u_guest", "u_norole"}
    /\ \E r \in Pending : r.ep = "GET /dashboard/user"

\* C27: one instance of the booking form has at most one POST /bookings in
\* flight; the success view allows no submit and has no request in flight;
\* a submit sets loading and leaves the form data; a rejected request of
\* the mounted form leaves success false and the form data unchanged, sets
\* loading false, and the form can be submitted again.
C27_OneBookingInFlight ==
    /\ \A r \in BookingPosts :
          /\ CopiesIn(r, inflight) = 1
          /\ \A q \in BookingPosts : q.detail.form = r.detail.form => q = r
    /\ (FormShown /\ ui.form.success) =>
          /\ ~CanSubmit(ui.form)
          /\ \A r \in BookingPosts : r.detail.form # ui.form.id
    /\ (FormShown /\ ui.form.loading) =>
          /\ ~CanSubmit(ui.form)
          /\ \E r \in BookingPosts : r.detail.form = ui.form.id
    /\ (last.op = "fail" /\ last.data.site = "BookingForm.handleSubmit"
          /\ last.data.before.showBookingForm
          /\ last.data.before.form.id = last.data.detail) =>
          /\ ui.form = [last.data.before.form EXCEPT !.loading = FALSE]
          /\ ~ui.form.success /\ ~ui.form.loading
          /\ CanSubmit(ui.form)

\* The request of a filled form was rejected and the form is as it was.
C27_Witness ==
    /\ last.op = "fail" /\ last.data.site = "BookingForm.handleSubmit"
    /\ FormShown /\ ui.form.id = last.data.detail
    /\ last.data.before.form.loading
    /\ ui.form.formData = "filled"
    /\ CanSubmit(ui.form)

\* A fetch of a venue is in flight.
VenueFetchPending == \E r \in Pending : r.ep = "GET /venues/:id"

\* C28 as stated: when a fetch of VenueDetail is fulfilled with the venue of
\* the current id, the venue details are rendered and not 'Venue Not
\* Found', also after the id changed from one whose fetch was rejected.
C28_Original ==
    (ui.kind = "VenueDetail" /\ last.op = "ok" /\ ui.venue.id = ui.id) => VenueShown

\* C29 as stated: when no fetch of VenueDetail is in flight any more and
\* none was rejected, the venue held is the venue of the current id,
\* whatever the order the responses arrived in.
C29_Original ==
    (ui.kind = "VenueDetail" /\ ui.mounted /\ ~VenueFetchPending /\ ui.error = "") =>
        ui.venue.id = ui.id

\* C30 as stated: the first fetch of the venue list that a search of the
\* home page navigated to carries the query string of the URL navigated to.
C30_Original ==
    [][(last.op = "handleSearch" /\ MountView) =>
          /\ Len(sent') = 1
          /\ sent'[1].detail.url = last.data.url]_vars

----------------------------------------------------------------------------
(* Termination of the loading indicators, checked under ViewLive *)

\* The view shows its loading indicator (the submit of a page is disabled).
ViewLoading ==
    /\ ui.kind \in {"VenueList", "VenueDetail"} \cup Dashboards \cup AuthPages
    /\ ui.loading

\* The submit of the booking form is disabled.
FormLoading == FormShown /\ ui.form.loading

\* C23: when every dispatched request completes, a view that is loading
\* (VenueList, VenueDetail, the three dashboards, a login or register
\* submit) is eventually not loading, and so is a booking form.
C23_LoadingEnds ==
    /\ ViewLoading ~> ~ViewLoading
    /\ FormLoading ~> ~FormLoading

\* The fetch of VenueList was rejected and the list is not loading.
C23_Witness ==
    /\ ui.kind = "VenueList"
    /\ last.op = "fail" /\ last.data.site = "fetchVenues"
    /\ last.data.before.loading /\ ~ui.loading
====
